---- MODULE Spec2Model ----
(***************************************************************************)
(* State-machine model of the Stalker portal test client:                  *)
(*   stalker_client.py  StalkerClient (session, endpoint detection,        *)
(*                      handshake, authenticate)                           *)
(*   test_macs.py       test_mac_address (per-identity retry loop) and     *)
(*                      main (batch loop, pacing, summary, save)           *)
(* Python strings that the code transforms or searches (MACs, messages)    *)
(* are sequences of one-character strings; opaque strings (paths, tokens)  *)
(* are TLA+ strings.                                                       *)
(***************************************************************************)
EXTENDS Integers, Sequences, FiniteSets, TLC

\* ------------------------------------------------------------------ bounds
\* Largest number of identities in a batch.
MaxMacs == 2
\* Largest number of handshake()/authenticate() calls of an ad-hoc session.
MaxCalls == 3

\* ------------------------------------------------------- program constants
\* test_mac_address(..., max_retries=3, ...)
max_retries == 3
\* backoff_time = 10 * (2 ** attempt)
backoff_base == 10

\* Python None for opaque strings (token, api_path, serial_number), and the
\* marker of a request parameter that is not sent.
None == "<None>"

\* ------------------------------------------------------------ Python strings
LowerChar(c) ==
    CASE c = "A" -> "a" [] c = "B" -> "b" [] c = "C" -> "c" [] c = "D" -> "d"
      [] c = "E" -> "e" [] c = "F" -> "f" [] c = "G" -> "g" [] c = "H" -> "h"
      [] c = "I" -> "i" [] c = "J" -> "j" [] c = "K" -> "k" [] c = "L" -> "l"
      [] c = "M" -> "m" [] c = "N" -> "n" [] c = "O" -> "o" [] c = "P" -> "p"
      [] c = "Q" -> "q" [] c = "R" -> "r" [] c = "S" -> "s" [] c = "T" -> "t"
      [] c = "U" -> "u" [] c = "V" -> "v" [] c = "W" -> "w" [] c = "X" -> "x"
      [] c = "Y" -> "y" [] c = "Z" -> "z" [] OTHER -> c

UpperChar(c) ==
    CASE c = "a" -> "A" [] c = "b" -> "B" [] c = "c" -> "C" [] c = "d" -> "D"
      [] c = "e" -> "E" [] c = "f" -> "F" [] c = "g" -> "G" [] c = "h" -> "H"
      [] c = "i" -> "I" [] c = "j" -> "J" [] c = "k" -> "K" [] c = "l" -> "L"
      [] c = "m" -> "M" [] c = "n" -> "N" [] c = "o" -> "O" [] c = "p" -> "P"
      [] c = "q" -> "Q" [] c = "r" -> "R" [] c = "s" -> "S" [] c = "t" -> "T"
      [] c = "u" -> "U" [] c = "v" -> "V" [] c = "w" -> "W" [] c = "x" -> "X"
      [] c = "y" -> "Y" [] c = "z" -> "Z" [] OTHER -> c

\* Mutant of Lower: the text is searched as it is.
KeepCase(s) == s

\* str.lower()
Lower(s) == [k \in 1..Len(s) |-> LowerChar(s[k])]

\* str.upper(): one character for one, but for the sharp s, whose uppercase
\* is the two characters "SS".
RECURSIVE Upper(_)
Upper(s) ==
    IF s = <<>> THEN <<>>
    ELSE (IF Head(s) = "ß" THEN <<"S", "S">> ELSE <<UpperChar(Head(s))>>) \o Upper(Tail(s))

\* s.replace(c, '') for a single character c
Remove(s, c) == SelectSeq(s, LAMBDA x : x # c)

\* len(clean) == 12
IsTwelve(clean) == Len(clean) = 12

\* format_mac, lines 144-153
format_mac(mac) ==
    LET clean == Remove(Remove(Remove(mac, ":"), "-"), ".")
    IN  IF IsTwelve(clean)
        THEN Upper([k \in 1..17 |->
                       IF k % 3 = 0 THEN ":" ELSE clean[(k \div 3) * 2 + (k % 3)]])
        ELSE Upper(mac)

\* sub in s
Contains(s, sub) ==
    \E k \in 0..(Len(s) - Len(sub)) : SubSeq(s, k + 1, k + Len(sub)) = sub

S_conflict == <<"c", "o", "n", "f", "l", "i", "c", "t">>
S_mismatch == <<"m", "i", "s", "m", "a", "t", "c", "h">>
S_AuthReq == <<"A", "u", "t", "h", "e", "n", "t", "i", "c", "a", "t", "i", "o", "n",
               " ", "r", "e", "q", "u", "e", "s", "t">>
S_HandshakeFailed == <<"H", "a", "n", "d", "s", "h", "a", "k", "e", " ",
                       "f", "a", "i", "l", "e", "d">>
S_RateLimitedMsg == <<"R", "a", "t", "e", " ", "l", "i", "m", "i", "t", "e", "d", " ",
                      "(", "m", "a", "x", " ", "r", "e", "t", "r", "i", "e", "s", " ",
                      "e", "x", "c", "e", "e", "d", "e", "d", ")">>
S_Dash == <<" ", "-", " ">>
S_ErrorPrefix == <<"E", "r", "r", "o", "r", ":", " ">>
\* str(e) of the AttributeError / TypeError a badly shaped payload raises
S_AttributeError == <<"n", "o", " ", "a", "t", "t", "r", "i", "b", "u", "t", "e">>
S_TypeError == <<"n", "o", "t", " ", "i", "t", "e", "r", "a", "b", "l", "e">>
S_None == <<"N", "o", "n", "e">>

\* ------------------------------------------------------------- JSON values
\* A JSON scalar as Python sees it: an int, a str or None.
PyInt(n) == [ty |-> "int", n |-> n, s |-> <<>>]
PyStr(s) == [ty |-> "str", n |-> 0, s |-> s]
PyNone == [ty |-> "none", n |-> 0, s |-> <<>>]

\* bool(v)
Truthy(v) ==
    CASE v.ty = "int" -> v.n # 0
      [] v.ty = "str" -> v.s # <<>>
      [] OTHER -> FALSE

\* a or b
PyOr(a, b) == IF Truthy(a) THEN a ELSE b

\* str(v), as an f-string formats it (single-digit ints suffice here)
Digit(n) == CASE n = 0 -> "0" [] n = 1 -> "1" [] n = 2 -> "2" [] n = 3 -> "3"
              [] n = 4 -> "4" [] n = 5 -> "5" [] n = 6 -> "6" [] n = 7 -> "7"
              [] n = 8 -> "8" [] OTHER -> "9"
ToStr(v) ==
    CASE v.ty = "str" -> v.s
      [] v.ty = "int" -> <<Digit(v.n)>>
      [] OTHER -> S_None

\* A dict is a function from its keys; d.get(k, default)
EmptyDict == [k \in {} |-> PyNone]
Get(d, k, default) == IF k \in DOMAIN d THEN d[k] ELSE default

\* Mutant of StatusIs: only the number is recognised.
StatusIsNumber(status, n) == status.ty = "int" /\ status.n = n

\* status == n or (isinstance(status, str) and status == "n")
StatusIs(status, n) ==
    \/ status.ty = "int" /\ status.n = n
    \/ status.ty = "str" /\ status.s = <<Digit(n)>>

\* ------------------------------------------------------------------ inputs
\* The portal base URL as entered (with and without a trailing slash is the
\* same portal: __init__ strips it).
PortalUrlInput == <<"h", ":", "/", "/", "p", "/">>
Timezone == "America/New_York"

\* MAC addresses as the batch receives them (generate_mac_range keeps the
\* case of the base the operator typed).
Mac1 == <<"0", "a">>
Mac2 == <<"0", "B">>
Macs == {Mac1, Mac2}

\* Batches: the lists of 1..MaxMacs identities in which every identity but
\* the last is Mac1 (so a list may repeat a MAC).
MacLists ==
    UNION {{s \in [1..n -> Macs] : \A k \in 1..(n - 1) : s[k] = Mac1} : n \in 1..MaxMacs}

\* Pacing intervals the operator can type (float(delay_input) accepts a sign).
Delays == {-5, 15}

\* The token a portal hands out in answer to the k-th handshake it is asked
\* for in a run: a fresh one each time.
FreshToken(k) ==
    CASE k = 1 -> "t1" [] k = 2 -> "t2" [] k = 3 -> "t3" [] k = 4 -> "t4" [] OTHER -> "t5"

\* An API path an ad-hoc session can be created with (none of the paths
\* detection tries).
CustomPath == "custom.php"

\* Serial numbers an ad-hoc session can be created with.
SerialNumbers == {None, "SN1"}

\* --------------------------------------------------------- HTTP responses
\* What response.json() can return. t: "null" (JSON null, Python None),
\* "falsy" (an empty object, list, string or zero), "scalar" (a non-zero
\* number: `'js' in response` raises TypeError), "dict" (an object, with or
\* without the js key).
\* The js value: "list" (a JSON array), "scalar" (a string, number or null:
\* it has no .get), "dict" (an object d).
JsList == [t |-> "list", d |-> <<>>]
JsScalar == [t |-> "scalar", d |-> <<>>]
JsDict(d) == [t |-> "dict", d |-> d]

JNull == [t |-> "null", has_js |-> FALSE, js |-> JsList]
JFalsy == [t |-> "falsy", has_js |-> FALSE, js |-> JsList]
JScalar == [t |-> "scalar", has_js |-> FALSE, js |-> JsList]
JNoJs == [t |-> "dict", has_js |-> FALSE, js |-> JsList]
JWithJs(js) == [t |-> "dict", has_js |-> TRUE, js |-> js]

\* No request has been answered: the local `response` is unbound.
NoResponse == [t |-> "unset", has_js |-> FALSE, js |-> JsList]

\* What session.get does: raise a RequestException (connection error,
\* timeout), or return a response with a status code, the Retry-After header
\* and a body that is JSON or not.
HttpException ==
    [raised |-> TRUE, status_code |-> 0, retry_after |-> None, json |-> FALSE, v |-> JNull]
HttpStatus(code, retry_after) ==
    [raised |-> FALSE, status_code |-> code, retry_after |-> retry_after,
     json |-> FALSE, v |-> JNull]
HttpText ==
    [raised |-> FALSE, status_code |-> 200, retry_after |-> None, json |-> FALSE, v |-> JNull]
HttpJson(v) ==
    [raised |-> FALSE, status_code |-> 200, retry_after |-> None, json |-> TRUE, v |-> v]

\* No request has been sent: session.get has not been called.
NoHttp ==
    [raised |-> FALSE, status_code |-> 0, retry_after |-> None, json |-> FALSE, v |-> NoResponse]

\* Responses that carry no usable payload, at any request.
FailedResponses ==
    {HttpException, HttpStatus(429, "120"), HttpStatus(500, None), HttpText}

\* Responses to the k-th handshake request of a run.
HandshakeDicts(k) ==
    {<<>>, ("token" :> ""), ("token" :> FreshToken(k)), ("Token" :> FreshToken(k))}
HandshakeResponses(k) ==
    FailedResponses
    \cup {HttpJson(JFalsy), HttpJson(JScalar), HttpJson(JNoJs),
          HttpJson(JWithJs(JsList)), HttpJson(JWithJs(JsScalar))}
    \cup {HttpJson(JWithJs(JsDict(d))) : d \in HandshakeDicts(k)}

\* js payloads of a get_profile response: an authorized one and a pending
\* one (the whole range of payloads is Payloads, below).
MsgOk == <<"o", "k">>
ProfileDicts ==
    { ("status" :> PyInt(1)),
      ("status" :> PyStr(<<"2">>)) @@ ("msg" :> PyStr(MsgOk)) }
ProfileResponses ==
    FailedResponses
    \cup {HttpJson(JFalsy), HttpJson(JNoJs), HttpJson(JWithJs(JsList))}
    \cup {HttpJson(JWithJs(JsDict(d))) : d \in ProfileDicts}

\* ----------------------------------------------------------- StalkerClient
\* str.rstrip('/')
RECURSIVE RStripSlash(_)
RStripSlash(s) ==
    IF s # <<>> /\ s[Len(s)] = "/" THEN RStripSlash(SubSeq(s, 1, Len(s) - 1)) ELSE s

\* bool(x) of an opaque string or None
TruthyS(x) == x # None /\ x # ""

\* StalkerClient.__init__
StalkerClient(portal_url, mac_address, timezone, api_path, serial_number) ==
    [portal_url |-> RStripSlash(portal_url),
     mac_address |-> Upper(mac_address),
     timezone |-> timezone,
     token |-> None,
     api_path |-> api_path,
     serial_number |-> serial_number,
     serial_number_explicit |-> (serial_number # None)]

\* No StalkerClient object exists.
NoClient ==
    [portal_url |-> <<>>, mac_address |-> <<>>, timezone |-> None, token |-> None,
     api_path |-> None, serial_number |-> None, serial_number_explicit |-> FALSE]

\* The request _make_request sends: the caller's params, plus the session
\* token as `token` when one is held. A parameter that is not sent is None.
SentRequest(self, action, prehash, token, mac, sn) ==
    [action |-> action,
     endpoint |-> self.api_path,
     prehash |-> prehash,
     token |-> IF TruthyS(self.token) THEN self.token ELSE token,
     mac |-> mac,
     sn |-> sn]

\* What _make_request returns for the response session.get produced: None
\* (JNull) on a RequestException, on an HTTP error status (raise_for_status)
\* and on a body that is not JSON; the parsed JSON otherwise.
make_request(resp) ==
    IF resp.raised THEN JNull
    ELSE IF resp.status_code >= 400 THEN JNull
    ELSE IF ~resp.json THEN JNull
    ELSE resp.v

\* detect_api_path's candidates and default.
common_paths ==
    <<"portal.php", "server/load.php", "stalker_portal/server/load.php",
      "c/version.js", "api/v1/">>
default_path == "server/load.php"

\* What the probe session.get(test_url, timeout=5) can do.
ProbeOutcomes ==
    {HttpException, HttpStatus(200, None), HttpStatus(404, None), HttpStatus(500, None)}

\* handshake(): the request it sends.
HandshakeRequest(self) ==
    SentRequest(self, "handshake", "0",
                IF TruthyS(self.token) THEN self.token ELSE "", <<>>, None)

\* Mutant of IsListPayload: the isinstance(js_data, list) test is missing.
NeverListPayload(js) == FALSE

\* Mutant of ResponseToken: only the lowercase spelling is read.
LowercaseTokenOnly(js_data) ==
    IF "token" \in DOMAIN js_data THEN js_data["token"] ELSE None

\* Mutant of AcceptsHeldToken: a response without a token always fails.
RejectsHeldToken(self) == FALSE

\* isinstance(js_data, list)
IsListPayload(js) == js.t = "list"

\* token = js_data.get('token') or js_data.get('Token')
ResponseToken(js_data) ==
    LET lower == IF "token" \in DOMAIN js_data THEN js_data["token"] ELSE None
        upper == IF "Token" \in DOMAIN js_data THEN js_data["Token"] ELSE None
    IN  IF TruthyS(lower) THEN lower ELSE upper

\* elif self.token: the token already held is accepted
AcceptsHeldToken(self) == TruthyS(self.token)

\* handshake(): what it returns ("True", "False") or the exception it raises,
\* and the token the session holds afterwards, given _make_request's return
\* value.
handshake(self, response) ==
    IF response.t \in {"null", "falsy"} THEN [ret |-> "False", token |-> self.token]
    ELSE IF response.t = "scalar" THEN [ret |-> "TypeError", token |-> self.token]
    ELSE IF ~response.has_js THEN [ret |-> "False", token |-> self.token]
    ELSE IF IsListPayload(response.js) THEN [ret |-> "False", token |-> self.token]
    ELSE IF response.js.t # "dict" THEN [ret |-> "AttributeError", token |-> self.token]
    ELSE LET token == ResponseToken(response.js.d)
         IN  IF TruthyS(token) THEN [ret |-> "True", token |-> token]
             ELSE IF AcceptsHeldToken(self) THEN [ret |-> "True", token |-> self.token]
             ELSE [ret |-> "False", token |-> self.token]

\* Mutant of SnParam: without an explicit serial number one derived from the
\* MAC is sent.
SnFromMac(self) ==
    IF self.serial_number_explicit THEN self.serial_number ELSE "MAC-without-colons"

\* if self._serial_number_explicit: params['sn'] = self.serial_number
SnParam(self) ==
    IF self.serial_number_explicit THEN self.serial_number ELSE None

\* authenticate(): the request it sends.
AuthenticateRequest(self) ==
    SentRequest(self, "get_profile",
                IF TruthyS(self.token) THEN self.token ELSE "",
                None, self.mac_address, SnParam(self))

\* Mutant of HasProfileData: only login counts as profile data.
HasLogin(js_data) == "login" \in DOMAIN js_data

\* 'login' in js_data or 'fname' in js_data or 'expire_billing_date' in js_data
HasProfileData(js_data) ==
    \/ "login" \in DOMAIN js_data
    \/ "fname" \in DOMAIN js_data
    \/ "expire_billing_date" \in DOMAIN js_data

\* authenticate(): what it returns ("True", "False") or the exception it
\* raises, given _make_request's return value.
authenticate(response) ==
    IF response.t \in {"null", "falsy"} THEN "False"
    ELSE IF response.t = "scalar" THEN "TypeError"
    ELSE IF ~response.has_js THEN "False"
    ELSE IF response.js.t # "dict" THEN "AttributeError"
    ELSE LET js_data == response.js.d
             status_code == Get(js_data, "status", PyNone)
         IN  IF HasProfileData(js_data) \/ StatusIs(status_code, 1)
             THEN "True" ELSE "False"

\* ------------------------------------------------------- test_mac_address
\* The result dict test_mac_address starts from.
NewResult(mac_address) ==
    [mac |-> mac_address,
     handshake |-> FALSE,
     status |-> PyNone,
     message |-> <<>>,
     authorized |-> FALSE,
     details |-> <<>>,
     rate_limited |-> FALSE,
     was_rate_limited |-> FALSE,
     retry_wait_time |-> 0]

\* str(e) of an exception; whether a call returned rather than raised.
ExceptionText(e) == IF e = "TypeError" THEN S_TypeError ELSE S_AttributeError
Returned(ret) == ret \in {"True", "False"}

\* except Exception as e: result['message'] = f'Error: {str(e)}'
Caught(result, e) == [result EXCEPT !.message = S_ErrorPrefix \o e]

\* The body of `if response and 'js' in response:` for a js object: the
\* result it returns, or the exception it runs into (a msg that is not a
\* string has no .lower()).
Classify(result, js_data) ==
    LET status == Get(js_data, "status", PyNone)
        msg == Get(js_data, "msg", PyStr(<<>>))
        block_msg == Get(js_data, "block_msg", PyStr(<<>>))
        r1 == [result EXCEPT !.status = status]
    IN  IF msg.ty # "str" THEN [raised |-> TRUE, result |-> r1]
        ELSE
        LET message == msg.s
            has_profile_data == HasProfileData(js_data)
            has_error ==
                \/ Contains(Lower(message), S_conflict)
                \/ Contains(Lower(message), S_mismatch)
                \/ Truthy(block_msg)
                \/ (Contains(message, S_AuthReq) /\ ~has_profile_data)
            r2 == [r1 EXCEPT !.message = message]
        IN  [raised |-> FALSE,
             result |->
               IF has_profile_data /\ ~has_error THEN
                 [r2 EXCEPT
                    !.authorized = TRUE,
                    !.details =
                       [phone |-> Get(js_data, "phone", PyStr(<<>>)),
                        name |-> PyOr(Get(js_data, "fname", PyStr(<<>>)),
                                      Get(js_data, "login", PyStr(<<>>))),
                        account |-> Get(js_data, "account", PyStr(<<>>)),
                        expiry |-> PyOr(Get(js_data, "expire_billing_date", PyStr(<<>>)),
                                        Get(js_data, "expirydate", PyStr(<<>>)))]]
               ELSE IF has_error THEN
                 [r2 EXCEPT
                    !.authorized = FALSE,
                    !.message = IF Truthy(block_msg)
                                THEN message \o S_Dash \o ToStr(block_msg)
                                ELSE message]
               ELSE IF StatusIs(status, 1) THEN
                 [r2 EXCEPT
                    !.authorized = TRUE,
                    !.details =
                       [phone |-> Get(js_data, "phone", PyStr(<<>>)),
                        name |-> Get(js_data, "fio", PyStr(<<>>)),
                        account |-> Get(js_data, "account", PyStr(<<>>))]]
               ELSE r2]

\* Mutant of RetryAfter: the loop also waits after its last attempt.
RetryAfterEveryAttempt(attempt) == attempt < max_retries

\* Mutant of Exhausted: the last rejected attempt just leaves the loop.
ExhaustedSilently(result) == result

\* Mutant of Exhausted: the last rejected attempt is also given the status
\* of the rejection.
ExhaustedWithStatus(result) ==
    [result EXCEPT !.rate_limited = TRUE, !.message = S_RateLimitedMsg,
                   !.status = PyInt(429)]

\* Mutant of CatchesException: only AttributeError is caught.
CatchesAttributeErrorOnly(e) == e = "AttributeError"

\* Mutant of Rejected: a rejected attempt leaves no mark in the result.
RejectedUnmarked(result) == result

\* What an attempt that returned nothing leaves in the result (line 64).
Rejected(result) == [result EXCEPT !.was_rate_limited = TRUE]

\* Mutant of PayloadReturned: a classified payload is followed by a wait and
\* another attempt.
PayloadRetried(result) ==
    [next |-> "continue", wait |-> backoff_base, kind |-> "payload", result |-> result]

\* A classified payload ends test_mac_address (line 118: return result).
PayloadReturned(result) ==
    [next |-> "return", wait |-> 0, kind |-> "payload", result |-> result]

\* Mutant of BackoffTime: the wait is the Retry-After the portal asked for.
RetryAfterSeconds(attempt) == 120

\* backoff_time = 10 * (2 ** attempt)
BackoffTime(attempt) == backoff_base * (2 ^ attempt)

\* Whether the loop waits and tries again after a rejected attempt.
RetryAfter(attempt) == attempt < max_retries - 1

\* What the last rejected attempt leaves in the result (lines 73-76).
Exhausted(result) ==
    [result EXCEPT !.rate_limited = TRUE, !.message = S_RateLimitedMsg]

\* Whether test_mac_address's `except Exception` catches exception e.
CatchesException(e) == e \in {"TypeError", "AttributeError"}

\* One iteration of `for attempt in range(max_retries)`, given what
\* _make_request returned: next is "continue" (after sleeping `wait`
\* seconds), "return", or the exception the iteration raises; kind names
\* what the attempt met.
AuthAttempt(result, attempt, response) ==
    IF response.t = "null" THEN
        LET r1 == Rejected(result)
        IN  IF RetryAfter(attempt)
            THEN [next |-> "continue", wait |-> BackoffTime(attempt), kind |-> "none",
                  result |-> [r1 EXCEPT !.retry_wait_time = @ + BackoffTime(attempt)]]
            ELSE [next |-> "return", wait |-> 0, kind |-> "none",
                  result |-> Exhausted(r1)]
    ELSE IF response.t = "falsy" THEN
        [next |-> "return", wait |-> 0, kind |-> "nojs", result |-> result]
    ELSE IF response.t = "scalar" THEN
        [next |-> "TypeError", wait |-> 0, kind |-> "shape", result |-> result]
    ELSE IF ~response.has_js THEN
        [next |-> "return", wait |-> 0, kind |-> "nojs", result |-> result]
    ELSE IF response.js.t # "dict" THEN
        [next |-> "AttributeError", wait |-> 0, kind |-> "shape", result |-> result]
    ELSE LET c == Classify(result, response.js.d)
         IN  IF c.raised
             THEN [next |-> "AttributeError", wait |-> 0, kind |-> "shape",
                   result |-> c.result]
             ELSE PayloadReturned(c.result)

\* ------------------------------------------------------------------- main
\* Mutant of PrintedLabel: an identity that was ever rejected is printed as
\* rate limited.
LabelAfterRetry(result) ==
    IF result.was_rate_limited THEN "Rate Limited"
    ELSE IF result.authorized THEN "AUTHORIZED"
    ELSE IF \/ Contains(Lower(result.message), S_conflict)
            \/ Contains(Lower(result.message), S_mismatch) THEN "Device Conflict"
    ELSE IF StatusIs(result.status, 2) THEN "Not Authorized"
    ELSE IF StatusIs(result.status, 0) THEN "Inactive"
    ELSE IF result.rate_limited THEN "Rate Limited"
    ELSE IF ~result.handshake THEN "Handshake Failed"
    ELSE "Unknown"

\* The line main prints for a result.
PrintedLabel(result) ==
    IF result.authorized THEN "AUTHORIZED"
    ELSE IF \/ Contains(Lower(result.message), S_conflict)
            \/ Contains(Lower(result.message), S_mismatch) THEN "Device Conflict"
    ELSE IF StatusIs(result.status, 2) THEN "Not Authorized"
    ELSE IF StatusIs(result.status, 0) THEN "Inactive"
    ELSE IF result.rate_limited THEN "Rate Limited"
    ELSE IF ~result.handshake THEN "Handshake Failed"
    ELSE "Unknown"

Max(a, b) == IF a >= b THEN a ELSE b

\* The pacing after a result when another identity follows: the seconds
\* slept (0 when time.sleep is skipped), or that time.sleep raises
\* ValueError for a negative length.
Pacing(delay_, result) ==
    IF result.retry_wait_time > 0 THEN
        LET remaining_delay == Max(0, delay_ - result.retry_wait_time)
        IN  [raised |-> FALSE, slept |-> remaining_delay]
    ELSE IF delay_ < 0 THEN [raised |-> TRUE, slept |-> 0]
    ELSE [raised |-> FALSE, slept |-> delay_]

\* sum(1 for r in results if P(r))
Count(rs, P(_)) == Cardinality({k \in 1..Len(rs) : P(rs[k])})

\* Mutant of IsStatus2: the summary counts only the number 2.
IsNumber2(r) == r.status.ty = "int" /\ r.status.n = 2

IsStatus2(r) == StatusIs(r.status, 2)
IsStatus0(r) == StatusIs(r.status, 0)
WasRateLimited(r) == r.was_rate_limited
IsRateLimited(r) == r.rate_limited
NoHandshake(r) == ~r.handshake

\* The counts of the "Test Summary" block.
Summarize(macs_, results_, authorized_macs_) ==
    [total |-> Len(macs_),
     authorized |-> Len(authorized_macs_),
     not_authorized |-> Count(results_, IsStatus2),
     inactive |-> Count(results_, IsStatus0),
     rate_limited_count |-> Count(results_, WasRateLimited),
     failed_retry_count |-> Count(results_, IsRateLimited),
     failed_handshake |-> Count(results_, NoHandshake)]

\* Mutant of CollectResult: results.insert(0, result)
CollectResultInFront(results_, result) == <<result>> \o results_

\* Mutant of SessionApiPath: test_mac_address is called without api_path.
NoApiPath(api_path_) == None

\* Mutant of NewSession: the new session starts with the previous session's
\* token.
CarriedSession(previous, mac_address, api_path_) ==
    [StalkerClient(PortalUrlInput, mac_address, Timezone, api_path_, None)
        EXCEPT !.token = previous.token]

\* results.append(result)
CollectResult(results_, result) == Append(results_, result)

\* The api_path main hands to test_mac_address for each identity.
SessionApiPath(api_path_) == api_path_

\* The session test_mac_address builds for an identity; `previous` is the
\* session of the identity before it.
NewSession(previous, mac_address, api_path_) ==
    StalkerClient(PortalUrlInput, mac_address, Timezone, api_path_, None)

\* ------------------------------------------------------------------ state
VARIABLES
    mode,             \* "batch": test_macs.main; "session": one ad-hoc StalkerClient;
                      \* "connection": stalker_client.main runs test_connection;
                      \* "entry": test_macs.main is reading the MAC list
    pc,               \* where the program is
    macs,             \* main: the identities to test
    typed,            \* main: the lines typed at the MAC prompt while the list is entered
    delay,            \* main: the pacing interval
    api_path,         \* main: the path detected before the loop
    client,           \* the StalkerClient in use
    i,                \* main: 1-based index of the identity in the loop (0 before it)
    attempt,          \* test_mac_address: the retry loop's counter
    result,           \* test_mac_address: the result dict being filled
    results,          \* main: the result list
    authorized_macs,  \* main: the authorized MACs
    printed,          \* stdout: the label printed for each identity
    summary,          \* stdout: <<counts>> once the summary is printed
    saved,            \* the output file: <<lines>> once it is written
    slept,            \* the pacing sleep after each identity but the last
    error,            \* the exception that ended the program, or None
    probed,           \* detect_api_path: the candidates probed, in order
    probe_idx,        \* detect_api_path: candidates probed so far
    first_ok,         \* detect_api_path: index of the first candidate that answered 200
    all_raised,       \* detect_api_path: every probe so far raised
    detect_runs,      \* how many times detect_api_path has been called
    requests,         \* the requests sent for the current identity / session
    waits,            \* the backoff sleeps made for the current identity
    rejected,         \* get_profile attempts of the identity that returned None
    met,              \* the kinds of failure met while processing the identity
    issued,           \* the token the identity's own handshake stored, or None
    calls,            \* session: API calls made so far
    last_ret,         \* session: what the last API call returned
    last_http,        \* what session.get did for the last request (raised, or the HTTP response)
    last_response     \* `response`: what _make_request returned for the last request

vars == <<mode, pc, macs, typed, delay, api_path, client, i, attempt, result, results,
          authorized_macs, printed, summary, saved, slept, error, probed, probe_idx,
          first_ok, all_raised, detect_runs, requests, waits, rejected, met,
          issued, calls, last_ret, last_http,
          last_response>>

main_vars == <<macs, typed, delay, api_path, i, results, authorized_macs, printed,
               summary, saved, slept>>
identity_vars == <<attempt, result, waits, rejected, met>>
detect_vars == <<probed, probe_idx, first_ok, all_raised, detect_runs>>
session_vars == <<calls, last_ret>>

Init ==
    /\ mode \in {"batch", "session", "connection"}
    /\ IF mode = "batch"
       THEN /\ macs \in MacLists
            /\ delay \in Delays
            /\ client = NoClient
            /\ pc = "main"
       ELSE IF mode = "connection"
       THEN /\ macs = <<>>
            /\ delay = 0
            /\ \E m \in Macs, sn \in SerialNumbers :
                   client = StalkerClient(PortalUrlInput, m, Timezone, None, sn)
            /\ pc = "start"
       ELSE /\ macs = <<>>
            /\ delay = 0
            /\ \E m \in Macs, ap \in {None, CustomPath}, sn \in SerialNumbers :
                   client = StalkerClient(PortalUrlInput, m, Timezone, ap, sn)
            /\ pc = "idle"
    /\ api_path = None
    /\ i = 0
    /\ attempt = 0
    /\ result = NewResult(<<>>)
    /\ results = <<>>
    /\ authorized_macs = <<>>
    /\ printed = <<>>
    /\ typed = <<>>
    /\ summary = <<>>
    /\ saved = <<>>
    /\ slept = <<>>
    /\ error = None
    /\ probed = <<>>
    /\ probe_idx = 0
    /\ first_ok = 0
    /\ all_raised = TRUE
    /\ detect_runs = 0
    /\ requests = <<>>
    /\ waits = <<>>
    /\ rejected = 0
    /\ met = {}
    /\ issued = None
    /\ calls = 0
    /\ last_ret = None
    /\ last_http = NoHttp
    /\ last_response = NoResponse

\* ------------------------------------------------------- detect_api_path
\* detect_api_path is entered: nothing probed yet.
EnterDetection ==
    /\ pc' = "detect"
    /\ probed' = <<>>
    /\ probe_idx' = 0
    /\ first_ok' = 0
    /\ all_raised' = TRUE
    /\ detect_runs' = detect_runs + 1

\* Mutant of ProbeFound: any answer, whatever its status, ends detection.
ProbeFoundAnyStatus(o) == ~o.raised

\* Mutant of DetectFallback: no default is set when nothing answers.
NoFallback == None

\* The path detect_api_path sets when no candidate answers 200 (line 162).
DetectFallback == default_path

\* Whether a probe's outcome makes detect_api_path return its path.
ProbeFound(o) == ~o.raised /\ o.status_code = 200

\* main, lines 301-306: the dummy client is built and detection starts.
StartDetection ==
    /\ mode = "batch" /\ pc = "main"
    /\ client' = StalkerClient(PortalUrlInput, macs[1], Timezone, None, None)
    /\ EnterDetection
    /\ UNCHANGED <<mode, last_http, last_response, main_vars, identity_vars, error, requests, issued, session_vars>>

\* One pass of detect_api_path's loop: probe the next candidate; return it on
\* a 200, move on otherwise, and return the default after the last one.
\* Detection called by main returns into main (api_path = ..., the loop
\* starts); detection called by handshake() returns into the handshake.
Probe(o) ==
    /\ pc = "detect"
    /\ LET idx == probe_idx + 1
           path == common_paths[idx]
           found == ProbeFound(o)
           last == idx = Len(common_paths)
           chosen == IF found THEN path ELSE DetectFallback
       IN  /\ probe_idx' = idx
           /\ probed' = Append(probed, path)
           /\ first_ok' = IF ~o.raised /\ o.status_code = 200 /\ first_ok = 0
                          THEN idx ELSE first_ok
           /\ all_raised' = (all_raised /\ o.raised)
           /\ IF found \/ last
              THEN IF mode = "batch" /\ i = 0
                   THEN /\ api_path' = chosen
                        /\ client' = [client EXCEPT !.api_path = chosen]
                        /\ i' = 1
                        /\ pc' = "loop"
                   ELSE /\ client' = [client EXCEPT !.api_path = chosen]
                        /\ pc' = "hs_request"
                        /\ UNCHANGED <<api_path, i>>
              ELSE UNCHANGED <<pc, client, api_path, i>>
    /\ UNCHANGED <<mode, last_http, last_response, macs, typed, delay, results, authorized_macs, printed, summary,
                   saved, slept, identity_vars, error, detect_runs, requests,
                   issued, session_vars>>

\* -------------------------------------------------------------- handshake
\* handshake() is entered: detect the API path when the session has none.
EnterHandshake(self) ==
    IF ~TruthyS(self.api_path)
    THEN EnterDetection
    ELSE /\ pc' = "hs_request"
         /\ UNCHANGED detect_vars

\* main, lines 312-316, and test_mac_address, lines 23-39: the next identity
\* gets its session and its result dict, and its handshake starts.
NextIdentity ==
    /\ last_http' = NoHttp
    /\ last_response' = NoResponse
    /\ mode = "batch" /\ pc = "loop"
    /\ LET self == NewSession(client, macs[i], SessionApiPath(api_path))
       IN  /\ client' = self
           /\ IF ~TruthyS(self.api_path)
              THEN EnterDetection
              ELSE /\ pc' = "hs_request"
                   /\ UNCHANGED detect_vars
    /\ result' = NewResult(macs[i])
    /\ attempt' = 0
    /\ requests' = <<>>
    /\ waits' = <<>>
    /\ rejected' = 0
    /\ met' = {}
    /\ issued' = None
    /\ UNCHANGED <<mode, main_vars, error, session_vars>>

\* Mutant of AfterFailedHandshake: the handshake is requested again.
RetriedHandshake == "hs_request"

\* Where test_mac_address goes when handshake() returned False (lines 41-43:
\* it returns the result).
AfterFailedHandshake == "report"

\* Mutant of AfterHandshake: test_connection authenticates whatever the
\* handshake returned.
AuthenticatesAnyway(ret) == "tc_auth"

\* test_connection, lines 412-422: it returns False when handshake() did,
\* and goes on to authenticate() otherwise.
AfterHandshake(ret) == IF ret = "True" THEN "tc_auth" ELSE "returned"

\* handshake(), lines 174-215: the request is sent and the response handled.
\* In the batch, test_mac_address (lines 37-43, 125-127) takes what it
\* returns or raises; in a session the caller does.
Handshake(resp) ==
    /\ last_http' = resp
    /\ last_response' = make_request(resp)
    /\ pc = "hs_request"
    /\ LET out == handshake(client, make_request(resp))
       IN  /\ requests' = Append(requests, HandshakeRequest(client))
           /\ client' = [client EXCEPT !.token = out.token]
           /\ issued' = IF out.token # client.token THEN out.token ELSE issued
           /\ IF mode = "batch"
              THEN /\ result' =
                        IF out.ret = "True" THEN [result EXCEPT !.handshake = TRUE]
                        ELSE IF out.ret = "False"
                        THEN [result EXCEPT !.message = S_HandshakeFailed]
                        ELSE Caught(result, ExceptionText(out.ret))
                   /\ met' = IF out.ret = "True" THEN met ELSE met \cup {"handshake"}
                   /\ pc' = IF out.ret = "True" THEN "auth"
                            ELSE IF Returned(out.ret) THEN AfterFailedHandshake
                            ELSE IF CatchesException(out.ret) THEN "report"
                            ELSE "crashed"
                   /\ error' = IF Returned(out.ret) \/ CatchesException(out.ret)
                               THEN error ELSE out.ret
                   /\ UNCHANGED last_ret
              ELSE /\ last_ret' = out.ret
                   /\ pc' = IF ~Returned(out.ret) THEN "raised"
                            ELSE IF mode = "session" THEN "idle"
                            ELSE AfterHandshake(out.ret)
                   /\ error' = IF Returned(out.ret) THEN error ELSE out.ret
                   /\ UNCHANGED <<result, met>>
    /\ UNCHANGED <<mode, main_vars, attempt, waits, rejected, detect_vars, calls>>

\* test_mac_address, lines 46-127: one attempt of the retry loop.
GetProfile(resp) ==
    /\ last_http' = resp
    /\ last_response' = make_request(resp)
    /\ mode = "batch" /\ pc = "auth"
    /\ LET response == make_request(resp)
           step == AuthAttempt(result, attempt, response)
       IN  /\ requests' = Append(requests, AuthenticateRequest(client))
           /\ result' = IF step.next \in {"continue", "return"} THEN step.result
                        ELSE Caught(step.result, ExceptionText(step.next))
           /\ rejected' = IF step.kind = "none" THEN rejected + 1 ELSE rejected
           /\ met' = IF step.kind = "payload" THEN met ELSE met \cup {step.kind}
           /\ IF step.next = "continue"
              THEN /\ waits' = Append(waits, step.wait)
                   /\ attempt' = attempt + 1
                   /\ pc' = IF attempt + 1 < max_retries THEN "auth" ELSE "report"
                   /\ UNCHANGED error
              ELSE /\ pc' = IF step.next = "return" \/ CatchesException(step.next)
                            THEN "report" ELSE "crashed"
                   /\ error' = IF step.next = "return" \/ CatchesException(step.next)
                               THEN error ELSE step.next
                   /\ UNCHANGED <<waits, attempt>>
    /\ UNCHANGED <<mode, main_vars, client, detect_vars, issued, session_vars>>

\* What the program has emitted of the report once a KeyboardInterrupt or
\* another exception has left main: the handlers of lines 421-429 print a
\* notice (and a traceback) and nothing of the result list.
EmittedOnAbort(macs_, results_, authorized_macs_, summary_) == summary_

\* An exception e leaves main: its frame, with the result list, is gone.
LeaveMain(e, how) ==
    /\ pc' = how
    /\ error' = e
    /\ summary' = EmittedOnAbort(macs, results, authorized_macs, summary)
    /\ results' = <<>>
    /\ authorized_macs' = <<>>
    /\ api_path' = None
    /\ client' = NoClient
    /\ result' = NewResult(<<>>)
    /\ attempt' = 0

\* main, lines 317-357: the result is appended and printed, an authorized MAC
\* is noted, and the pacing sleep is made when another identity follows.
Report ==
    /\ last_http' = NoHttp
    /\ last_response' = NoResponse
    /\ mode = "batch" /\ pc = "report"
    /\ printed' = Append(printed, PrintedLabel(result))
    /\ LET pace == Pacing(delay, result)
       IN  IF i < Len(macs) /\ pace.raised
           THEN /\ LeaveMain("ValueError", "crashed")
                /\ UNCHANGED <<i, slept>>
           ELSE /\ results' = CollectResult(results, result)
                /\ authorized_macs' =
                      IF result.authorized THEN Append(authorized_macs, macs[i])
                      ELSE authorized_macs
                /\ slept' = IF i < Len(macs) THEN Append(slept, pace.slept) ELSE slept
                /\ i' = i + 1
                /\ pc' = IF i < Len(macs) THEN "loop" ELSE "summary"
                /\ UNCHANGED <<api_path, client, result, attempt, summary, error>>
    /\ UNCHANGED <<mode, macs, typed, delay, saved, waits, rejected, met, detect_vars,
                   requests, issued, session_vars>>

\* main, lines 359-393: the summary is printed; the save prompt follows
\* when some MAC is authorized.
PrintSummary ==
    /\ mode = "batch" /\ pc = "summary"
    /\ summary' = <<Summarize(macs, results, authorized_macs)>>
    /\ pc' = IF authorized_macs # <<>> THEN "save" ELSE "done"
    /\ UNCHANGED <<mode, last_http, last_response, macs, typed, delay, api_path, client, i, results, authorized_macs,
                   printed, saved, slept, identity_vars, error, detect_vars,
                   requests, issued, session_vars>>

\* main, lines 395-402: the operator answers the save prompt.
Save(answer) ==
    /\ mode = "batch" /\ pc = "save"
    /\ saved' = IF answer = "y" THEN <<authorized_macs>> ELSE saved
    /\ pc' = "done"
    /\ UNCHANGED <<mode, last_http, last_response, macs, typed, delay, api_path, client, i, results, authorized_macs,
                   printed, summary, slept, identity_vars, error, detect_vars,
                   requests, issued, session_vars>>

\* The operator interrupts the scan (KeyboardInterrupt is no Exception: no
\* handler below __main__'s catches it), lines 421-425.
Interrupt ==
    /\ last_http' = NoHttp
    /\ last_response' = NoResponse
    /\ mode = "batch"
    /\ pc \in {"main", "detect", "loop", "hs_request", "auth", "report"}
    /\ LeaveMain("KeyboardInterrupt", "interrupted")
    /\ requests' = <<>>
    /\ waits' = <<>>
    /\ rejected' = 0
    /\ met' = {}
    /\ issued' = None
    /\ UNCHANGED <<mode, macs, typed, delay, i, printed, saved, slept, detect_vars,
                   session_vars>>

\* ------------------------------------------------------- an ad-hoc session
\* The caller calls handshake().
CallHandshake ==
    /\ mode = "session" /\ pc = "idle" /\ calls < MaxCalls
    /\ calls' = calls + 1
    /\ EnterHandshake(client)
    /\ UNCHANGED <<mode, last_http, last_response, main_vars, client, identity_vars, error, requests,
                   issued, last_ret>>

\* The caller calls authenticate(), lines 217-314.
CallAuthenticate(resp) ==
    /\ last_http' = resp
    /\ last_response' = make_request(resp)
    /\ mode = "session" /\ pc = "idle" /\ calls < MaxCalls
    /\ calls' = calls + 1
    /\ requests' = Append(requests, AuthenticateRequest(client))
    /\ LET ret == authenticate(make_request(resp))
       IN  /\ last_ret' = ret
           /\ pc' = IF Returned(ret) THEN "idle" ELSE "raised"
           /\ error' = IF Returned(ret) THEN error ELSE ret
    /\ UNCHANGED <<mode, main_vars, client, identity_vars, detect_vars, issued>>

\* --------------------------------------------------------- test_connection
\* stalker_client.main, lines 580-581: test_connection is called on the new
\* client; its first step is handshake().
TestConnection ==
    /\ mode = "connection" /\ pc = "start"
    /\ EnterHandshake(client)
    /\ UNCHANGED <<mode, last_http, last_response, main_vars, client, identity_vars,
                   error, requests, issued, session_vars>>

\* test_connection, lines 421-460: authenticate() is called and what it
\* returns is what test_connection returns.
ConnectionAuthenticate(resp) ==
    /\ last_http' = resp
    /\ last_response' = make_request(resp)
    /\ mode = "connection" /\ pc = "tc_auth"
    /\ requests' = Append(requests, AuthenticateRequest(client))
    /\ LET ret == authenticate(make_request(resp))
       IN  /\ last_ret' = ret
           /\ pc' = IF Returned(ret) THEN "returned" ELSE "raised"
           /\ error' = IF Returned(ret) THEN error ELSE ret
    /\ UNCHANGED <<mode, main_vars, client, identity_vars, detect_vars, issued, calls>>

Next ==
    \/ StartDetection
    \/ \E o \in ProbeOutcomes : Probe(o)
    \/ NextIdentity
    \/ \E resp \in HandshakeResponses(IF mode = "batch" THEN i
                                       ELSE IF mode = "session" THEN calls ELSE 1) :
          Handshake(resp)
    \/ \E resp \in ProfileResponses : GetProfile(resp)
    \/ Report
    \/ PrintSummary
    \/ \E answer \in {"y", "n"} : Save(answer)
    \/ Interrupt
    \/ CallHandshake
    \/ \E resp \in ProfileResponses : CallAuthenticate(resp)
    \/ TestConnection
    \/ \E resp \in ProfileResponses : ConnectionAuthenticate(resp)

Spec == Init /\ [][Next]_vars

\* ------------------------------------------- the payloads of get_profile
\* The retry loop and the report of one identity, from the point where its
\* handshake has succeeded, over the js objects a portal can answer
\* get_profile with: a status (absent, null, 0..3 as a number or a string), a
\* msg (absent, null, or a text), a block_msg and the profile fields.
StatusValues ==
    {PyNone, PyInt(0), PyInt(1), PyInt(2), PyInt(3),
     PyStr(<<"0">>), PyStr(<<"1">>), PyStr(<<"2">>), PyStr(<<"3">>)}
MsgConflict == <<"x", " ">> \o Upper(S_conflict) \o <<"!">>
MsgMismatch == <<"M">> \o Tail(S_mismatch)
MsgValues ==
    {PyNone, PyStr(<<>>), PyStr(MsgOk), PyStr(MsgConflict), PyStr(MsgMismatch),
     PyStr(S_AuthReq)}
BlockMsgBlocked == <<"b", "l", "o", "c", "k", "e", "d">>
BlockMsgValues == {PyStr(<<>>), PyStr(BlockMsgBlocked), PyStr(S_conflict)}
ProfileFieldSets ==
    {<<>>, ("login" :> PyStr(<<"u">>)), ("fname" :> PyStr(<<>>)),
     ("expire_billing_date" :> PyStr(<<"d">>))}

\* The dicts with key k absent or bound to one of vs.
Field(k, vs) == {<<>>} \cup {(k :> v) : v \in vs}

Payloads ==
    {s @@ m @@ b @@ f : s \in Field("status", StatusValues), m \in Field("msg", MsgValues),
                        b \in Field("block_msg", BlockMsgValues), f \in ProfileFieldSets}

\* What a get_profile request can be answered with: a rejection, or a payload.
PayloadResponses ==
    {HttpStatus(429, None), HttpStatus(429, "120"), HttpText, HttpJson(JNull),
     HttpJson(JNoJs)}
    \cup {HttpJson(JWithJs(JsDict(d))) : d \in Payloads}

\* What the batch has reported before the identity whose payload is
\* classified: nothing (it is the first), a failed handshake, or an identity
\* authorized at its second attempt.
EarlierFailed == [NewResult(Mac1) EXCEPT !.message = S_HandshakeFailed]
EarlierAuthorized ==
    Classify([NewResult(Mac1) EXCEPT !.handshake = TRUE,
                                     !.was_rate_limited = TRUE,
                                     !.retry_wait_time = backoff_base],
             ("status" :> PyInt(1))).result
EarlierResults == {<<>>, <<EarlierFailed>>, <<EarlierAuthorized>>}

\* The batch at the identity whose handshake has just succeeded (the path
\* was found at the first candidate, the portal answered the handshake with
\* a token): the only identity, or the second of two.
ClassifyInit ==
    \E earlier \in EarlierResults :
    LET n   == Len(earlier) + 1
        ms  == IF n = 1 THEN <<Mac1>> ELSE <<Mac1, Mac2>>
        new == StalkerClient(PortalUrlInput, ms[n], Timezone, common_paths[1], None)
    IN  /\ mode = "batch"
        /\ pc = "auth"
        /\ macs = ms
        /\ delay \in Delays
        /\ n > 1 => ~Pacing(delay, earlier[1]).raised
        /\ api_path = common_paths[1]
        /\ client = [new EXCEPT !.token = FreshToken(n)]
        /\ i = n
        /\ attempt = 0
        /\ result = [NewResult(ms[n]) EXCEPT !.handshake = TRUE]
        /\ results = earlier
        /\ authorized_macs = IF n > 1 /\ earlier[1].authorized THEN <<Mac1>> ELSE <<>>
        /\ printed = IF n > 1 THEN <<PrintedLabel(earlier[1])>> ELSE <<>>
        /\ typed = <<>>
        /\ summary = <<>>
        /\ saved = <<>>
        /\ slept = IF n > 1 THEN <<Pacing(delay, earlier[1]).slept>> ELSE <<>>
        /\ error = None
        /\ probed = <<common_paths[1]>>
        /\ probe_idx = 1
        /\ first_ok = 1
        /\ all_raised = FALSE
        /\ detect_runs = 1
        /\ requests = <<HandshakeRequest(new)>>
        /\ waits = <<>>
        /\ rejected = 0
        /\ met = {}
        /\ issued = FreshToken(n)
        /\ calls = 0
        /\ last_ret = None
        /\ last_http = HttpJson(JWithJs(JsDict("token" :> FreshToken(n))))
        /\ last_response = JWithJs(JsDict("token" :> FreshToken(n)))

ClassifyNext ==
    \/ \E resp \in PayloadResponses : GetProfile(resp)
    \/ Report
    \/ PrintSummary
    \/ \E answer \in {"y", "n"} : Save(answer)

ClassifySpec == ClassifyInit /\ [][ClassifyNext]_vars

\* ------------------------------------------------------ entering the MACs
\* main, lines 194-200: the operator types MAC addresses one per line; each
\* is formatted and appended; a blank line ends the list.
MaxTyped == 2

Digits12a == <<"0", "0", "1", "a", "7", "9", "1", "6", "b", "a", "0", "f">>
Digits12b == <<"0", "0", "1", "A", "7", "9", "1", "6", "b", "A", "0", "F">>
Digits12c == <<"f", "e", "d", "c", "b", "a", "9", "8", "7", "6", "5", "4">>

\* The characters d written in groups of g separated by sep.
RECURSIVE Grouped(_, _, _)
Grouped(d, g, sep) ==
    IF Len(d) <= g THEN d
    ELSE SubSeq(d, 1, g) \o <<sep>> \o Grouped(SubSeq(d, g + 1, Len(d)), g, sep)

\* The separator styles of a MAC: none, colons, hyphens, dots between
\* groups of four, and a mix.
Styles(d) ==
    {d, Grouped(d, 2, ":"), Grouped(d, 2, "-"), Grouped(d, 4, "."),
     SubSeq(d, 1, 2) \o <<":">> \o SubSeq(d, 3, 6) \o <<"-">> \o SubSeq(d, 7, 12)}

\* What the operator can type: MACs of 12 hex digits in every style, and
\* lines that are no such MAC (too short, too long, separated by blanks,
\* twelve characters that are not all hex digits, eleven characters with a
\* sharp s).
NoMacLines ==
    {SubSeq(Digits12a, 1, 11),
     Grouped(Digits12a, 2, ":") \o <<":", "0", "0">>,
     Grouped(Digits12a, 2, " "),
     <<"0", "0", "1", "a", "7", "9", "1", "6", "b", "a", "0", "g">>,
     <<"n", "o", "t", ":", "a", "-", "m", "a", "c", " ", "l", "i", "n", "e", "!">>,
     <<"ß">> \o SubSeq(Digits12a, 1, 10)}
TypedLines == Styles(Digits12a) \cup Styles(Digits12b) \cup Styles(Digits12c) \cup NoMacLines

EntryInit ==
    /\ mode = "entry"
    /\ pc = "typing"
    /\ macs = <<>>
    /\ typed = <<>>
    /\ delay = 0
    /\ client = NoClient
    /\ api_path = None
    /\ i = 0
    /\ attempt = 0
    /\ result = NewResult(<<>>)
    /\ results = <<>>
    /\ authorized_macs = <<>>
    /\ printed = <<>>
    /\ summary = <<>>
    /\ saved = <<>>
    /\ slept = <<>>
    /\ error = None
    /\ probed = <<>>
    /\ probe_idx = 0
    /\ first_ok = 0
    /\ all_raised = TRUE
    /\ detect_runs = 0
    /\ requests = <<>>
    /\ waits = <<>>
    /\ rejected = 0
    /\ met = {}
    /\ issued = None
    /\ calls = 0
    /\ last_ret = None
    /\ last_http = NoHttp
    /\ last_response = NoResponse

\* A line is typed: macs.append(format_mac(mac)).
TypeMac(mac) ==
    /\ mode = "entry" /\ pc = "typing" /\ Len(typed) < MaxTyped
    /\ typed' = Append(typed, mac)
    /\ macs' = Append(macs, format_mac(mac))
    /\ UNCHANGED <<mode, pc, delay, api_path, client, i, results, authorized_macs,
                   printed, summary, saved, slept, identity_vars, error,
                   detect_vars, requests, issued, session_vars, last_http,
                   last_response>>

\* The blank line: the list is complete (an empty list ends main, line 252).
EndOfList ==
    /\ mode = "entry" /\ pc = "typing"
    /\ pc' = IF macs = <<>> THEN "no_macs" ELSE "entered"
    /\ UNCHANGED <<mode, macs, typed, delay, api_path, client, i, results,
                   authorized_macs, printed, summary, saved, slept, identity_vars,
                   error, detect_vars, requests, issued, session_vars, last_http,
                   last_response>>

EntryNext ==
    \/ \E mac \in TypedLines : TypeMac(mac)
    \/ EndOfList

EntrySpec == EntryInit /\ [][EntryNext]_vars

\* ------------------------------------------------ a batch of three identities
\* A batch of three identities against a portal that serves the first
\* candidate path and every handshake, and answers get_profile with a
\* rejection, an active account, a pending account or a profile.
ScenarioMacs == <<Mac1, Mac1, Mac2>>
ScenarioDelay == 15
JsStatus1 == ("status" :> PyInt(1))
JsStatus2 == ("status" :> PyInt(2))
JsProfile == ("login" :> PyStr(<<"u">>))
ScenarioResponses ==
    {HttpStatus(429, None), HttpJson(JWithJs(JsDict(JsStatus1))),
     HttpJson(JWithJs(JsDict(JsStatus2))), HttpJson(JWithJs(JsDict(JsProfile)))}

ScenarioInit ==
    /\ mode = "batch"
    /\ macs = ScenarioMacs
    /\ delay = ScenarioDelay
    /\ client = NoClient
    /\ pc = "main"
    /\ api_path = None
    /\ i = 0
    /\ attempt = 0
    /\ result = NewResult(<<>>)
    /\ results = <<>>
    /\ authorized_macs = <<>>
    /\ printed = <<>>
    /\ typed = <<>>
    /\ summary = <<>>
    /\ saved = <<>>
    /\ slept = <<>>
    /\ error = None
    /\ probed = <<>>
    /\ probe_idx = 0
    /\ first_ok = 0
    /\ all_raised = TRUE
    /\ detect_runs = 0
    /\ requests = <<>>
    /\ waits = <<>>
    /\ rejected = 0
    /\ met = {}
    /\ issued = None
    /\ calls = 0
    /\ last_ret = None
    /\ last_http = NoHttp
    /\ last_response = NoResponse

ScenarioNext ==
    \/ StartDetection
    \/ Probe(HttpStatus(200, None))
    \/ NextIdentity
    \/ Handshake(HttpJson(JWithJs(JsDict("token" :> FreshToken(i)))))
    \/ \E resp \in ScenarioResponses : GetProfile(resp)
    \/ Report
    \/ PrintSummary
    \/ \E answer \in {"y", "n"} : Save(answer)

ScenarioSpec == ScenarioInit /\ [][ScenarioNext]_vars

\* ------------------------------------------------- a batch that is left to run
\* A batch the operator does not interrupt, against a portal that serves the
\* first candidate path, answers or fails every handshake, and answers
\* get_profile with a rejection, an active account, a pending account or a
\* profile. Every network call returns or fails within its timeout and the
\* save prompt is answered, so a step that can be taken is taken.
RunInit == Init /\ mode = "batch"

RunHandshakeResponses(k) ==
    {HttpException, HttpJson(JWithJs(JsDict("token" :> FreshToken(k))))}

RunNext ==
    \/ StartDetection
    \/ Probe(HttpStatus(200, None))
    \/ NextIdentity
    \/ \E resp \in RunHandshakeResponses(i) : Handshake(resp)
    \/ \E resp \in ScenarioResponses : GetProfile(resp)
    \/ Report
    \/ PrintSummary
    \/ \E answer \in {"y", "n"} : Save(answer)

RunSpec == RunInit /\ [][RunNext]_vars /\ WF_vars(RunNext)

\* ================================================================= claims
Min(a, b) == IF a <= b THEN a ELSE b

\* The batch is running or has completed (main has not been left by an
\* exception).
InMain == mode = "batch" /\ pc \notin {"interrupted", "crashed"}

\* test_mac_address has returned the current identity's result.
Returned1 == mode = "batch" /\ pc = "report"

\* The identity whose bookkeeping (waits, rejected, met, requests) is held
\* has been appended to the result list.
Reported == mode = "batch" /\ pc \in {"loop", "summary", "save", "done"} /\ results # <<>>

C2_ExhaustedIsRateLimited ==
    /\ (Returned1 /\ rejected = max_retries =>
            /\ result.rate_limited
            /\ ~result.authorized
            /\ result.status = PyNone
            /\ PrintedLabel(result) = "Rate Limited")
    /\ (Reported /\ rejected = max_retries =>
            /\ results[Len(results)].rate_limited
            /\ printed[Len(printed)] = "Rate Limited")

C2_Witness ==
    Reported /\ rejected = max_retries /\ printed[Len(printed)] = "Rate Limited"

\* ---- C3
\* C3 as stated: after each identity except the last the scanner sleeps
\* exactly max(0, delay - retry_wait_time) seconds, for every pacing interval
\* and retry wait (so time.sleep is never handed a negative length), and no
\* sleep follows the last identity.
C3_PacingSleep ==
    mode = "batch" =>
        /\ error # "ValueError"
        /\ (InMain =>
              /\ Len(slept) = Min(Len(results), Len(macs) - 1)
              /\ \A k \in 1..Len(slept) :
                    slept[k] = Max(0, delay - results[k].retry_wait_time))

\* ---- C4
\* The MACs of the first k inputs whose outcome is authorized, in input order.
RECURSIVE AuthorizedAmong(_, _, _)
AuthorizedAmong(macs_, results_, k) ==
    IF k = 0 THEN <<>>
    ELSE IF results_[k].authorized
         THEN Append(AuthorizedAmong(macs_, results_, k - 1), macs_[k])
         ELSE AuthorizedAmong(macs_, results_, k - 1)

\* C4: at every point of a batch run the result list holds one outcome for
\* each of the first k inputs, in input order, and the authorized MACs (and
\* the file written from them) are the order-preserving sublist of the inputs
\* whose outcome is authorized.
C4_ResultsInInputOrder ==
    InMain =>
        /\ Len(results) = Len(printed)
        /\ Len(results) <= Len(macs)
        /\ (pc \in {"loop", "hs_request", "auth", "report"} => Len(results) = i - 1)
        /\ (pc \in {"summary", "save", "done"} => Len(results) = Len(macs))
        /\ \A k \in 1..Len(results) : results[k].mac = macs[k]
        /\ authorized_macs = AuthorizedAmong(macs, results, Len(results))
        /\ (saved # <<>> => saved[1] = AuthorizedAmong(macs, results, Len(macs)))

C4_Witness ==
    /\ InMain /\ pc = "done" /\ saved # <<>>
    /\ Len(macs) = 2 /\ macs[1] = macs[2]
    /\ ~results[1].authorized /\ results[2].authorized
    /\ authorized_macs = <<macs[2]>>

C6_InterruptEmitsReport ==
    (mode = "batch" /\ pc = "interrupted" /\ printed # <<>>) =>
        /\ summary # <<>>
        /\ summary[1].authorized =
              Cardinality({k \in 1..Len(printed) : printed[k] = "AUTHORIZED"})

\* ---- C7
\* Resolution could not reach the portal: every candidate's probe raised.
Unreachable ==
    mode = "batch" /\ probe_idx = Len(common_paths) /\ all_raised

\* C7 as stated: when every probe of the resolution phase fails at transport
\* level the batch is aborted at once, with no identity processed and no
\* report.
C7_UnreachableAborts ==
    Unreachable => pc = "crashed" /\ requests = <<>> /\ printed = <<>> /\ summary = <<>>

\* C7 amended: when every probe fails at transport level, resolution does not
\* fail: the batch goes on with the fallback path 'server/load.php', every
\* identity's requests are sent to it, nothing aborts the batch before an
\* identity has been processed, and a batch that runs to its end has the full
\* report.
C7_UnreachableFallsBack ==
    Unreachable =>
        /\ error \in {None, "KeyboardInterrupt", "ValueError"}
        /\ (error = "ValueError" => printed # <<>>)
        /\ (InMain =>
              /\ api_path = "server/load.php"
              /\ i >= 1
              /\ \A k \in 1..Len(requests) : requests[k].endpoint = "server/load.php"
              /\ (pc \in {"summary", "save", "done"} => Len(results) = Len(macs))
              /\ (pc \in {"save", "done"} =>
                    summary = <<Summarize(macs, results, authorized_macs)>>))

C7_Witness ==
    /\ Unreachable /\ pc = "done" /\ Len(results) = 2
    /\ results[2].authorized /\ summary # <<>>
    /\ Len(requests) = 2 /\ requests[1].endpoint = "server/load.php"

\* ---- C8
\* C8: detect_api_path probes the candidates in list order, each at most
\* once; it is still probing only while no candidate has answered 200; it
\* returns the first candidate that answered 200 having probed none after it,
\* the fallback 'server/load.php' when all five were probed without a 200,
\* and it never raises.
C8_FirstHitOrFallback ==
    /\ Len(probed) = probe_idx
    /\ probe_idx <= Len(common_paths)
    /\ probed = SubSeq(common_paths, 1, Len(probed))
    /\ (pc = "detect" => first_ok = 0 /\ probe_idx < Len(common_paths))
    /\ (first_ok # 0 => Len(probed) = first_ok)
    /\ (detect_runs > 0 /\ pc \notin {"detect", "interrupted", "crashed"} =>
          /\ first_ok # 0 \/ Len(probed) = Len(common_paths)
          /\ client.api_path =
                IF first_ok # 0 THEN common_paths[first_ok] ELSE "server/load.php"
          /\ (mode = "batch" => api_path = client.api_path))
    /\ error \notin {"RequestException", "HTTPError"}

C8_Witness ==
    /\ mode = "session" /\ pc = "hs_request" /\ first_ok = 3
    /\ probed = <<"portal.php", "server/load.php", "stalker_portal/server/load.php">>
    /\ all_raised = FALSE
    /\ client.api_path = "stalker_portal/server/load.php"

\* ---- C9
IsHandshakeRequest(r) == r.action = "handshake"

\* C9: in a batch detection runs exactly once, before the first identity, and
\* every request of every identity goes to the path it found; in an ad-hoc
\* session created without an API path it runs exactly once, when the first
\* handshake is made and before its request is sent, and a session created
\* with a path never runs it.
C9_DetectionRunsOnce ==
    /\ detect_runs <= 1
    /\ (mode = "batch" =>
          /\ (pc = "main" => detect_runs = 0)
          /\ (i >= 1 => detect_runs = 1)
          /\ (pc = "detect" => i = 0 /\ requests = <<>> /\ results = <<>>)
          /\ (InMain => \A k \in 1..Len(requests) : requests[k].endpoint = api_path))
    /\ (mode = "session" =>
          /\ (client.api_path = CustomPath => detect_runs = 0)
          /\ (client.api_path = None /\ pc # "detect" =>
                detect_runs = 0 /\ Count(requests, IsHandshakeRequest) = 0)
          /\ (pc = "detect" =>
                detect_runs = 1 /\ Count(requests, IsHandshakeRequest) = 0)
          /\ (Count(requests, IsHandshakeRequest) > 0 /\ client.api_path # CustomPath =>
                detect_runs = 1))

C9_Witness ==
    /\ mode = "batch" /\ pc = "done" /\ Len(results) = 2 /\ detect_runs = 1
    /\ ~results[1].handshake /\ results[2].handshake

C9_SessionWitness ==
    /\ mode = "session" /\ detect_runs = 1
    /\ Count(requests, IsHandshakeRequest) = 2

\* ---- C10
\* C10: the session of each identity of a batch is built from the portal URL,
\* the identity's MAC and the resolved API path alone, and holds no token
\* before its handshake; no request made for an identity carries the token a
\* different identity's handshake was given.
C10_FreshSessionPerIdentity ==
    mode = "batch" /\ pc \in {"hs_request", "auth", "report"} =>
        /\ (pc = "hs_request" =>
              /\ client = StalkerClient(PortalUrlInput, macs[i], Timezone, api_path, None)
              /\ client.token = None
              /\ issued = None)
        /\ client.token \in {None, FreshToken(i)}
        /\ \A k \in 1..Len(requests) : \A j \in 1..Len(macs) :
              j # i => /\ requests[k].token # FreshToken(j)
                       /\ requests[k].prehash # FreshToken(j)

C10_Witness ==
    /\ mode = "batch" /\ pc = "report" /\ i = 2
    /\ results[1].handshake /\ results[1].authorized
    /\ Len(requests) = 2
    /\ requests[1].token = ""
    /\ requests[2].token = FreshToken(2)

\* ---- C11
IsGetProfileRequest(r) == r.action = "get_profile"

\* The last request sent was a handshake / a get_profile request.
LastWasHandshake ==
    requests # <<>> /\ IsHandshakeRequest(requests[Len(requests)])
LastWasGetProfile ==
    requests # <<>> /\ IsGetProfileRequest(requests[Len(requests)])

\* C11: in a session authenticate() sends no get_profile request while no
\* token is held (every get_profile request carries a token a handshake
\* stored), and a call made without one is not answered with an ordinary
\* True / False result.
C11_AuthenticateNeedsToken ==
    mode = "session" =>
        /\ \A k \in 1..Len(requests) :
              IsGetProfileRequest(requests[k]) =>
                  requests[k].prehash # "" /\ requests[k].token # None
        /\ (LastWasGetProfile /\ client.token = None => last_ret \notin {"True", "False"})

\* ---- C12
\* The token the session held when its last request was sent.
TokenAtLastRequest ==
    IF requests[Len(requests)].token \in {"", None} THEN None
    ELSE requests[Len(requests)].token

\* C12: when the js payload of a handshake response is a list, handshake()
\* returns False without raising and leaves the session token as it was (in a
\* batch: none); in a batch the identity's result says 'Handshake failed' and
\* is printed as Handshake Failed.
C12_ListPayloadFailsHandshake ==
    LastWasHandshake /\ last_response = JWithJs(JsList) =>
        /\ error = None
        /\ pc \notin {"raised", "crashed"}
        /\ client.token = TokenAtLastRequest
        /\ (mode = "session" => last_ret = "False")
        /\ (mode = "batch" =>
              /\ pc = "report"
              /\ client.token = None
              /\ ~result.handshake
              /\ result.message = S_HandshakeFailed
              /\ PrintedLabel(result) = "Handshake Failed")

C12_Witness ==
    /\ mode = "session" /\ LastWasHandshake /\ last_response = JWithJs(JsList)
    /\ Count(requests, IsHandshakeRequest) = 2
    /\ client.token = FreshToken(1) /\ last_ret = "False"

C12_BatchWitness ==
    /\ mode = "batch" /\ pc = "report" /\ LastWasHandshake
    /\ last_response = JWithJs(JsList) /\ i = 2

\* ---- C13
\* The handshake response is a js object with a non-empty token under
\* `token` or `Token`.
CarriesToken(k) ==
    /\ last_response.t = "dict" /\ last_response.has_js /\ last_response.js.t = "dict"
    /\ \/ Get(last_response.js.d, "token", None) = FreshToken(k)
       \/ Get(last_response.js.d, "Token", None) = FreshToken(k)

\* C13: a handshake answered with a js object that carries a non-empty token
\* under either spelling returns True and stores that token as the session
\* token; whenever handshake() has returned True the session holds a
\* non-empty token.
C13_TokenStoredOnSuccess ==
    /\ \A k \in 1..(MaxMacs + MaxCalls) :
          LastWasHandshake /\ CarriesToken(k) =>
              /\ client.token = FreshToken(k)
              /\ error = None
              /\ (mode = "session" => last_ret = "True")
              /\ (mode = "batch" => result.handshake /\ pc = "auth")
    /\ (mode = "session" /\ LastWasHandshake /\ last_ret = "True" =>
            client.token \notin {None, ""})
    /\ (mode = "batch" /\ pc \in {"auth", "report"} /\ result.handshake =>
            client.token \notin {None, ""})

C13_Witness ==
    /\ mode = "batch" /\ pc = "auth" /\ LastWasHandshake
    /\ last_response = HttpJson(JWithJs(JsDict("Token" :> FreshToken(1)))).v
    /\ client.token = FreshToken(1) /\ result.handshake

\* ---- C14
\* The handshake response is a js object without a (non-empty) token.
CarriesNoToken ==
    /\ last_response.t = "dict" /\ last_response.has_js /\ last_response.js.t = "dict"
    /\ Get(last_response.js.d, "token", "") = ""
    /\ Get(last_response.js.d, "Token", "") = ""

\* C14: a handshake answered with a js object without a token succeeds and
\* keeps the held token unchanged when the session held one when the request
\* was sent, and fails, leaving the session without a token, when it held
\* none.
C14_HeldTokenAccepted ==
    LastWasHandshake /\ CarriesNoToken =>
        /\ error = None
        /\ client.token = TokenAtLastRequest
        /\ (mode = "session" =>
              last_ret = IF TokenAtLastRequest # None THEN "True" ELSE "False")
        /\ (mode = "batch" => ~result.handshake /\ pc = "report")

C14_Witness ==
    /\ mode = "session" /\ LastWasHandshake /\ CarriesNoToken
    /\ last_response.js.d = <<>>
    /\ TokenAtLastRequest = FreshToken(1) /\ client.token = FreshToken(1)
    /\ last_ret = "True"

C14_NoTokenWitness ==
    /\ mode = "session" /\ LastWasHandshake /\ CarriesNoToken
    /\ TokenAtLastRequest = None /\ last_ret = "False"

C15_NoSerialWitness ==
    /\ mode = "session" /\ client.serial_number = None
    /\ LastWasGetProfile /\ requests[Len(requests)].sn = None

C15_BatchWitness ==
    /\ mode = "batch" /\ pc = "auth" /\ attempt = 2
    /\ Count(requests, IsGetProfileRequest) = 2
    /\ \A k \in 1..Len(requests) : requests[k].sn = None

\* ---- C16..C20: classification of a get_profile payload
\* The state on which ClassifySpec starts is a state of Spec.
ClassifyStart ==
    /\ ClassifyInit
    /\ delay = 15
ClassifyStartAfterFailed ==
    /\ ClassifyInit
    /\ results = <<EarlierFailed>>
ClassifyStartAfterAuthorized ==
    /\ ClassifyInit
    /\ results = <<EarlierAuthorized>>
    /\ delay = -5

\* The js object that was classified for the identity being reported.
Classified ==
    /\ mode = "batch" /\ pc = "report" /\ LastWasGetProfile
    /\ last_response.t = "dict" /\ last_response.has_js /\ last_response.js.t = "dict"
js_data == last_response.js.d

HasConflictText(d) ==
    /\ "msg" \in DOMAIN d /\ d["msg"].ty = "str"
    /\ \/ Contains(Upper(d["msg"].s), Upper(S_conflict))
       \/ Contains(Upper(d["msg"].s), Upper(S_mismatch))
HasBlockMsg(d) == "block_msg" \in DOMAIN d /\ Truthy(d["block_msg"])
MsgIsText(d) == "msg" \in DOMAIN d => d["msg"].ty = "str"
HasProfileField(d) == {"login", "fname", "expire_billing_date"} \cap DOMAIN d # {}
StatusOf(d) == Get(d, "status", PyNone)
\* The status is code n, as a number or as a string.
StatusCode(d, n) == StatusOf(d) \in {PyInt(n), PyStr(<<Digit(n)>>)}

NoConflictSignal(d) == ~HasConflictText(d) /\ ~HasBlockMsg(d)

\* ---- C16
\* C16: a payload whose msg contains 'conflict' or 'mismatch' in any letter
\* case is not authorized and is printed as Device Conflict, whatever its
\* status, block_msg and profile fields.
C16_ConflictTextIsConflict ==
    Classified /\ HasConflictText(js_data) =>
        /\ ~result.authorized
        /\ PrintedLabel(result) = "Device Conflict"

C16_Witness ==
    /\ Classified /\ Get(js_data, "msg", PyNone) = PyStr(MsgConflict)
    /\ StatusOf(js_data) = PyInt(1) /\ "login" \in DOMAIN js_data
    /\ "block_msg" \notin DOMAIN js_data
    /\ PrintedLabel(result) = "Device Conflict"

\* ---- C17
\* C17: a payload with a non-empty block_msg (and a msg that is a text) is
\* not authorized and is printed as Device Conflict, whatever its msg,
\* status and profile fields.
C17_BlockMsgIsConflict ==
    Classified /\ HasBlockMsg(js_data) /\ MsgIsText(js_data) =>
        /\ ~result.authorized
        /\ PrintedLabel(result) = "Device Conflict"

\* ---- C18
\* C18 as stated: a payload with status 1 (number or string) and no conflict
\* marker is authorized whatever the rest of its msg and its profile fields.
C18_Status1IsAuthorized ==
    Classified /\ MsgIsText(js_data) /\ StatusCode(js_data, 1)
               /\ NoConflictSignal(js_data) =>
        result.authorized /\ PrintedLabel(result) = "AUTHORIZED"

\* The msg is an 'Authentication request' notice and no profile field came
\* with it.
UnansweredAuthRequest(d) ==
    /\ "msg" \in DOMAIN d /\ d["msg"].ty = "str" /\ Contains(d["msg"].s, S_AuthReq)
    /\ ~HasProfileField(d)

\* C18 amended: a payload with status 1, as the number 1 or the string "1",
\* and no conflict marker is authorized, with or without profile fields,
\* unless its msg contains 'Authentication request' and it has no profile
\* field: that payload is not authorized and is printed as Unknown. The
\* number and the string give the same result.
C18_Status1IsAuthorizedUnlessAuthRequest ==
    Classified /\ MsgIsText(js_data) /\ StatusCode(js_data, 1)
               /\ NoConflictSignal(js_data) =>
        IF UnansweredAuthRequest(js_data)
        THEN ~result.authorized /\ PrintedLabel(result) = "Unknown"
        ELSE result.authorized /\ PrintedLabel(result) = "AUTHORIZED"

C18_Witness ==
    /\ Classified /\ StatusOf(js_data) = PyStr(<<"1">>)
    /\ DOMAIN js_data = {"status", "msg"} /\ js_data["msg"] = PyStr(MsgOk)
    /\ result.authorized

C18_AuthRequestWitness ==
    /\ Classified /\ StatusOf(js_data) = PyInt(1)
    /\ UnansweredAuthRequest(js_data) /\ NoConflictSignal(js_data)
    /\ PrintedLabel(result) = "Unknown"

C19_InactiveWitness ==
    /\ Classified /\ StatusOf(js_data) = PyStr(<<"0">>)
    /\ DOMAIN js_data = {"status"} /\ PrintedLabel(result) = "Inactive"

\* ---- C20
\* The summary counts of a batch that ends with the result being reported.
SummaryWith(result_) == Summarize(macs, Append(results, result_), authorized_macs)

\* C20: a payload with no profile field and no conflict signal is printed as
\* Not Authorized (Pending) for status 2 and as Inactive for status 0, given
\* as a number or as the string, and as Unknown for any status other than 0,
\* 1, 2 or none at all; it is not authorized, and the summary counts it under
\* 'Not authorized' exactly for status 2 and under 'Inactive' exactly for
\* status 0, in either form.
C20_StatusClasses ==
    Classified /\ MsgIsText(js_data) /\ NoConflictSignal(js_data)
               /\ ~HasProfileField(js_data) /\ ~StatusCode(js_data, 1) =>
        /\ ~result.authorized
        /\ PrintedLabel(result) =
              IF StatusCode(js_data, 2) THEN "Not Authorized"
              ELSE IF StatusCode(js_data, 0) THEN "Inactive"
              ELSE "Unknown"
        /\ SummaryWith(result).not_authorized =
              IF StatusCode(js_data, 2) THEN 1 ELSE 0
        /\ SummaryWith(result).inactive =
              IF StatusCode(js_data, 0) THEN 1 ELSE 0

C20_Witness ==
    /\ Classified /\ StatusOf(js_data) = PyStr(<<"2">>)
    /\ DOMAIN js_data = {"status", "msg"}
    /\ PrintedLabel(result) = "Not Authorized"
    /\ SummaryWith(result).not_authorized = 1

C20_UnknownWitness ==
    /\ Classified /\ DOMAIN js_data = {} /\ PrintedLabel(result) = "Unknown"

\* ---- C21: the classification is a function of the payload
\* What test_mac_address and main make of a response that is the first and
\* only one an identity alone in the batch receives.
ClassifiedAlone(response) ==
    LET step == AuthAttempt([NewResult(<<>>) EXCEPT !.handshake = TRUE], 0, response)
    IN  IF step.next \in {"continue", "return"} THEN step.result
        ELSE Caught(step.result, ExceptionText(step.next))

SameClassification(r, s) ==
    /\ PrintedLabel(r) = PrintedLabel(s)
    /\ r.authorized = s.authorized
    /\ r.status = s.status
    /\ r.message = s.message
    /\ r.details = s.details

\* C21: the label, the authorized flag, the status, the message and the
\* profile details reported for an identity are those the payload alone
\* determines, whatever the identity's position in the batch, the number of
\* rejected attempts before the payload and the outcome of the identity
\* before it: any two identities that receive the same payload agree on them.
C21_ClassificationByPayloadAlone ==
    Classified => SameClassification(result, ClassifiedAlone(last_response))

\* The second identity of a batch whose first was authorized, classified as
\* not authorized by a status-2 payload after two rejected attempts.
C21_Witness ==
    /\ Classified
    /\ i = 2 /\ results = <<EarlierAuthorized>>
    /\ rejected = 2
    /\ StatusCode(js_data, 2)
    /\ PrintedLabel(result) = "Not Authorized"
    /\ ~result.authorized /\ result.was_rate_limited

\* ---- C22: a retry that succeeds
\* The results of three identities answered [status 1], [429, then status 2]
\* and [a profile].
ScenarioResults ==
    <<Classify([NewResult(ScenarioMacs[1]) EXCEPT !.handshake = TRUE], JsStatus1).result,
      Classify([NewResult(ScenarioMacs[2]) EXCEPT !.handshake = TRUE,
                                                  !.was_rate_limited = TRUE,
                                                  !.retry_wait_time = backoff_base],
               JsStatus2).result,
      Classify([NewResult(ScenarioMacs[3]) EXCEPT !.handshake = TRUE], JsProfile).result>>

\* C22: an identity classified from a payload that followed rejected attempts
\* is classified by that payload and recorded as having been rate limited,
\* with the backoff it waited; an identity with no rejected attempt is
\* recorded as not rate limited with zero retry wait; and the three
\* identities answered [status 1], [429 then status 2], [profile] are
\* printed [AUTHORIZED, Not Authorized, AUTHORIZED] in that order.
C22_RetryThenPayload ==
    /\ Classified /\ rejected >= 1 =>
          /\ result.was_rate_limited
          /\ result.retry_wait_time > 0
          /\ ~result.rate_limited
          /\ SameClassification(result, ClassifiedAlone(last_response))
    /\ Returned1 /\ rejected = 0 =>
          /\ ~result.was_rate_limited
          /\ result.retry_wait_time = 0
    /\ mode = "batch" /\ results = ScenarioResults =>
          printed = <<"AUTHORIZED", "Not Authorized", "AUTHORIZED">>

\* The batch answered [status 1], [429 then status 2], [profile] has
\* completed.
C22_Witness ==
    /\ mode = "batch" /\ pc = "done"
    /\ results = ScenarioResults
    /\ results[2].was_rate_limited /\ StatusIs(results[2].status, 2)
    /\ ~results[1].was_rate_limited /\ ~results[3].was_rate_limited
    /\ authorized_macs = <<ScenarioMacs[1], ScenarioMacs[3]>>

\* The second identity is being reported: its first attempt was rejected,
\* its second returned status 2.
C22_RetryWitness ==
    /\ Classified /\ i = 2 /\ rejected = 1 /\ waits = <<backoff_base>>
    /\ js_data = JsStatus2
    /\ result.was_rate_limited /\ PrintedLabel(result) = "Not Authorized"

\* ---- C23: a malformed get_profile response
\* The number of get_profile requests sent for the current identity.
GetProfileRequests == Len(SelectSeq(requests, IsGetProfileRequest))

\* The retry loop has ended at the last get_profile request without a wait
\* after it, and the identity is reported as Unknown, not as rate limited.
EndedAsUnknown ==
    /\ pc = "report"
    /\ Len(waits) < GetProfileRequests
    /\ ~result.rate_limited
    /\ PrintedLabel(result) = "Unknown"

\* C23: a get_profile response that is malformed (its body is not JSON, or
\* it is JSON without a js field) ends the identity: no further get_profile
\* request, no backoff wait, and the outcome is Unknown, not rate limited.
C23_MalformedIsTerminal ==
    mode = "batch" /\ LastWasGetProfile
    /\ last_http \in {HttpText, HttpJson(JNoJs), HttpJson(JFalsy)}
    => EndedAsUnknown

\* The half the code keeps: JSON without a js field is terminal and Unknown.
C23_NoJsIsTerminal ==
    mode = "batch" /\ LastWasGetProfile
    /\ last_http \in {HttpJson(JNoJs), HttpJson(JFalsy)}
    => EndedAsUnknown

\* A body that is not JSON is handled as a rejected attempt.
C23_NotJsonIsRetried ==
    mode = "batch" /\ LastWasGetProfile /\ last_http = HttpText
    => /\ result.was_rate_limited
       /\ \/ pc = "auth" /\ Len(waits) = GetProfileRequests
          \/ pc = "report" /\ result.rate_limited
                /\ PrintedLabel(result) = "Rate Limited"

\* ---- C24: a payload ends the retry loop
\* A device conflict was answered to the last get_profile request.
ConflictAnswered ==
    /\ Classified
    /\ HasConflictText(js_data)

\* C24: once a get_profile attempt has returned a payload with a js field
\* (a device conflict in particular) the retry loop has ended: the identity
\* is being reported, no wait followed the attempt; and every attempt but
\* the last one sent, and every wait, followed an attempt that returned no
\* usable payload.
C24_PayloadEndsRetryLoop ==
    mode = "batch" =>
        /\ LastWasGetProfile /\ last_response.t = "dict" /\ last_response.has_js =>
              /\ pc = "report"
              /\ Len(waits) < GetProfileRequests
        /\ GetProfileRequests <= rejected + 1
        /\ Len(waits) <= rejected

\* A device conflict answered to the first attempt: one request, no wait.
C24_Witness ==
    /\ ConflictAnswered
    /\ GetProfileRequests = 1 /\ waits = <<>> /\ rejected = 0
    /\ PrintedLabel(result) = "Device Conflict"

\* A device conflict answered after two rejected attempts.
C24_RetryWitness ==
    /\ ConflictAnswered
    /\ GetProfileRequests = 3 /\ waits = <<backoff_base, 2 * backoff_base>>

\* ---- C25: the backoff ignores the rate-limit headers
\* The waits made after n rejected attempts.
BackoffSchedule(n) ==
    [k \in 1..Min(n, max_retries - 1) |-> backoff_base * (2 ^ (k - 1))]

Sum3(s) ==
    (IF Len(s) >= 1 THEN s[1] ELSE 0) + (IF Len(s) >= 2 THEN s[2] ELSE 0)
    + (IF Len(s) >= 3 THEN s[3] ELSE 0)

\* C25: the waits of an identity are determined by the number of its
\* rejected attempts alone (10 s, then 20 s, none after the third), whatever
\* Retry-After the rejections carried; the get_profile requests are all the
\* same request, and the recorded retry wait and the rate-limited outcome
\* follow from the count: two runs that differ only in the headers of their
\* rejections make the same requests and waits and end the same.
C25_BackoffIgnoresHeaders ==
    mode = "batch" /\ pc \in {"auth", "report"} /\ result.handshake =>
        /\ waits = BackoffSchedule(rejected)
        /\ result.retry_wait_time = Sum3(waits)
        /\ \A k \in 1..Len(requests) :
              IsGetProfileRequest(requests[k]) => requests[k] = AuthenticateRequest(client)
        /\ result.was_rate_limited = (rejected > 0)
        /\ result.rate_limited = (rejected = max_retries)

\* Two attempts were rejected, the last with `Retry-After: 120`: the waits
\* were 10 s and 20 s.
C25_Witness ==
    /\ mode = "batch" /\ pc = "auth"
    /\ last_http = HttpStatus(429, "120")
    /\ rejected = 2
    /\ waits = <<backoff_base, 2 * backoff_base>>

\* The same point reached by rejections without the header.
C25_NoHeaderWitness ==
    /\ mode = "batch" /\ pc = "auth"
    /\ last_http = HttpStatus(429, None)
    /\ rejected = 2
    /\ waits = <<backoff_base, 2 * backoff_base>>

\* ---- C26: format_mac
IsHexDigit(c) ==
    c \in {"0", "1", "2", "3", "4", "5", "6", "7", "8", "9",
           "a", "b", "c", "d", "e", "f", "A", "B", "C", "D", "E", "F"}

\* The line without its colons, hyphens and dots.
Digits(line) == SelectSeq(line, LAMBDA c : c \notin {":", "-", "."})

\* The line has exactly 12 hex digits once the separators are removed.
IsMacLine(line) ==
    /\ Len(Digits(line)) = 12
    /\ \A k \in 1..12 : IsHexDigit(Digits(line)[k])

\* Six octets of uppercase hex digits separated by colons.
IsCanonical(m) ==
    /\ Len(m) = 17
    /\ \A k \in 1..17 :
          IF k % 3 = 0 THEN m[k] = ":"
          ELSE IsHexDigit(m[k]) /\ UpperChar(m[k]) = m[k]

\* The two lines are the same text but for the case of their letters.
SameButCase(a, b) ==
    /\ Len(a) = Len(b)
    /\ \A k \in 1..Len(a) : UpperChar(a[k]) = UpperChar(b[k])

\* Every line that is a MAC of 12 hex digits is entered in canonical form,
\* the same for every separator style and case of the same digits.
C26_MacLinesCanonical ==
    mode = "entry" =>
        \A k, l \in 1..Len(typed) :
            IsMacLine(typed[k]) =>
                /\ IsCanonical(macs[k])
                /\ Digits(macs[k]) = Upper(Digits(typed[k]))
                /\ (IsMacLine(typed[l]) /\ SameButCase(Digits(typed[k]), Digits(typed[l]))
                      => macs[l] = macs[k])

\* C26: format_mac maps every line with exactly 12 hex digits, once colons,
\* hyphens and dots are removed, to the colon-separated uppercase form of
\* its six octets, the same for every separator style; it returns every
\* other line uppercased with its structure unchanged; and formatting what
\* it returned changes nothing.
C26_FormatMac ==
    /\ C26_MacLinesCanonical
    /\ mode = "entry" =>
          \A k \in 1..Len(typed) :
              /\ ~IsMacLine(typed[k]) =>
                    /\ macs[k] = [j \in 1..Len(typed[k]) |-> UpperChar(typed[k][j])]
              /\ format_mac(macs[k]) = macs[k]

\* The same MAC typed with colons in lowercase and with dots in mixed case.
C26_Witness ==
    /\ mode = "entry"
    /\ typed = <<Grouped(Digits12a, 2, ":"), Grouped(Digits12b, 4, ".")>>
    /\ macs[1] = macs[2]
    /\ IsCanonical(macs[1])

\* Everything but the two failing kinds of line is formatted as claimed:
\* a line is uppercased in place unless, separators removed, it has twelve
\* characters; and formatting is idempotent on what it returned for a line
\* whose uppercase has as many characters as the line.
C26_OtherLinesUppercased ==
    mode = "entry" =>
        \A k \in 1..Len(typed) :
            /\ Len(Digits(typed[k])) # 12 => macs[k] = Upper(typed[k])
            /\ "ß" \notin {typed[k][j] : j \in 1..Len(typed[k])}
                  => format_mac(macs[k]) = macs[k]

\* ---- C27: the handshake is not retried
HandshakeRequests == Len(SelectSeq(requests, IsHandshakeRequest))

\* C27: an identity is sent exactly one handshake request; when the
\* handshake fails (a transport error or timeout, an HTTP error such as 429,
\* a body that is no JSON, a response without a usable token) no other
\* request and no backoff wait follows, and the identity is reported as
\* Handshake Failed with zero retry wait.
C27_HandshakeNotRetried ==
    mode = "batch" /\ pc \in {"auth", "report"} =>
        /\ HandshakeRequests = 1
        /\ IsHandshakeRequest(requests[1])
        /\ ~result.handshake =>
              /\ pc = "report"
              /\ Len(requests) = 1
              /\ waits = <<>> /\ rejected = 0
              /\ result.retry_wait_time = 0
              /\ ~result.was_rate_limited /\ ~result.rate_limited
              /\ PrintedLabel(result) = "Handshake Failed"

\* The handshake was answered with HTTP 429: the identity is reported as
\* Handshake Failed after its one request.
C27_Witness ==
    /\ mode = "batch" /\ pc = "report"
    /\ last_http = HttpStatus(429, "120")
    /\ ~result.handshake
    /\ Len(requests) = 1 /\ LastWasHandshake
    /\ waits = <<>>
    /\ PrintedLabel(result) = "Handshake Failed"

\* The same after a transport error, at the second identity.
C27_TransportWitness ==
    /\ mode = "batch" /\ pc = "report" /\ i = 2
    /\ last_http = HttpException
    /\ ~result.handshake
    /\ Len(requests) = 1

\* ---- C28: get_profile follows a successful handshake, with its token
\* One of the two drivers is running: the batch's test_mac_address for the
\* current identity, or test_connection.
InDriver ==
    \/ mode = "batch" /\ pc \in {"hs_request", "auth", "report"}
    \/ mode = "connection"

\* C28: in the batch and in test_connection alike, a get_profile request is
\* sent only after the handshake of the same session has succeeded: the
\* session's first request is its handshake, that handshake stored a
\* non-empty token, and every get_profile request, retries included,
\* carries that token; when the handshake has failed the driver ends
\* without a get_profile request.
C28_GetProfileCarriesHandshakeToken ==
    InDriver =>
        /\ \A k \in 1..Len(requests) :
              IsGetProfileRequest(requests[k]) =>
                  /\ k > 1 /\ IsHandshakeRequest(requests[1])
                  /\ issued \notin {None, ""}
                  /\ client.token = issued
                  /\ requests[k].token = issued
                  /\ requests[k].prehash = issued
                  /\ mode = "batch" => result.handshake
        /\ mode = "batch" /\ pc = "report" /\ ~result.handshake => Len(requests) = 1
        /\ mode = "connection" /\ pc = "returned" /\ LastWasHandshake =>
              /\ Len(requests) = 1
              /\ last_ret = "False"
        /\ mode = "connection" /\ pc = "tc_auth" =>
              /\ LastWasHandshake
              /\ issued \notin {None, ""} /\ client.token = issued

\* test_connection has returned True: its get_profile request carried the
\* token its handshake stored.
C28_Witness ==
    /\ mode = "connection" /\ pc = "returned" /\ last_ret = "True"
    /\ Len(requests) = 2
    /\ IsHandshakeRequest(requests[1]) /\ IsGetProfileRequest(requests[2])
    /\ requests[2].token = FreshToken(1)

\* The batch's second identity at its third get_profile request.
C28_BatchWitness ==
    /\ mode = "batch" /\ i = 2
    /\ Len(requests) = 4 /\ LastWasGetProfile
    /\ \A k \in 2..4 : requests[k].token = FreshToken(2)

\* test_connection has returned False at the handshake, which was answered
\* with a non-JSON body.
C28_FailedWitness ==
    /\ mode = "connection" /\ pc = "returned"
    /\ last_http = HttpText /\ LastWasHandshake
    /\ last_ret = "False"

\* ---- C29: the summary and the listing
\* How many identities the listing shows with the label.
Listed(label) == Len(SelectSeq(printed, LAMBDA l : l = label))

\* The summary of a completed batch has been printed.
Summarized == mode = "batch" /\ pc \in {"save", "done"} /\ summary # <<>>

\* C29: in the summary of a completed batch the counts of Authorized, Not
\* authorized, Inactive, failed after the retries and failed at the
\* handshake each equal the number of identities the listing shows with
\* that classification, and no identity is counted twice.
C29_SummaryMatchesListing ==
    Summarized =>
        LET s == summary[1]
        IN  /\ s.authorized = Listed("AUTHORIZED")
            /\ s.not_authorized = Listed("Not Authorized")
            /\ s.inactive = Listed("Inactive")
            /\ s.failed_retry_count = Listed("Rate Limited")
            /\ s.failed_handshake = Listed("Handshake Failed")
            /\ s.authorized + s.not_authorized + s.inactive + s.failed_retry_count
                  + s.failed_handshake <= s.total

\* The counts that are taken from the flags the listing uses agree with it.
C29_FlagCountsMatchListing ==
    Summarized =>
        LET s == summary[1]
        IN  /\ s.authorized = Listed("AUTHORIZED")
            /\ s.failed_retry_count = Listed("Rate Limited")
            /\ s.failed_handshake = Listed("Handshake Failed")
            /\ s.total = Len(printed)

\* The counts taken from the status are never below the listing's.
C29_StatusCountsCoverListing ==
    Summarized =>
        LET s == summary[1]
        IN  /\ s.not_authorized >= Listed("Not Authorized")
            /\ s.inactive >= Listed("Inactive")

\* A batch of one identity listed as Device Conflict and counted under Not
\* authorized.
C29_ConflictCountedAsPending ==
    /\ Summarized
    /\ printed = <<"Device Conflict">>
    /\ summary[1].not_authorized = 1

\* A batch of one identity listed as AUTHORIZED and counted both under
\* Authorized and under Inactive.
C29_CountedTwice ==
    /\ Summarized
    /\ printed = <<"AUTHORIZED">>
    /\ summary[1].authorized = 1 /\ summary[1].inactive = 1

\* ---- C30: authenticate() and test_mac_address
\* What StalkerClient.authenticate() returns for the response that
\* test_mac_address has classified.
AuthenticateSucceeds == authenticate(last_response) = "True"

\* C30: for every get_profile payload, authenticate() returns True exactly
\* when test_mac_address marks the identity authorized for that payload, also
\* when profile fields or status 1 come with a conflict or mismatch message
\* or with a block message.
C30_AuthenticateAgrees ==
    Classified => (AuthenticateSucceeds <=> result.authorized)

\* One direction holds: whatever test_mac_address authorizes, authenticate()
\* accepts.
C30_AuthorizedImpliesSuccess ==
    Classified /\ result.authorized => AuthenticateSucceeds

\* The two agree on every payload whose message is a text without conflict
\* signal and without an unanswered authentication request.
C30_AgreeWithoutConflict ==
    Classified /\ MsgIsText(js_data) /\ NoConflictSignal(js_data)
               /\ ~UnansweredAuthRequest(js_data)
    => (AuthenticateSucceeds <=> result.authorized)

\* A payload with a login and a conflict message: refused by
\* test_mac_address, accepted by authenticate().
C30_ConflictAccepted ==
    /\ Classified
    /\ HasConflictText(js_data) /\ "login" \in DOMAIN js_data
    /\ ~result.authorized
    /\ AuthenticateSucceeds

\* ---- C31: the fields of a returned outcome
\* C31: every outcome test_mac_address returns satisfies: authorized implies
\* that the handshake succeeded and that rate_limited is false; rate_limited
\* implies was_rate_limited, no status and not authorized; was_rate_limited
\* holds exactly when some get_profile attempt returned no usable payload;
\* retry_wait_time is the sum of the backoff sleeps made, is 0, 10 or 30,
\* and is positive only with was_rate_limited; a failed handshake implies no
\* status, not authorized and no retry wait.
C31_OutcomeFields ==
    Returned1 =>
        /\ result.authorized => result.handshake /\ ~result.rate_limited
        /\ result.rate_limited =>
              /\ result.was_rate_limited
              /\ result.status = PyNone
              /\ ~result.authorized
        /\ result.was_rate_limited <=> rejected >= 1
        /\ result.retry_wait_time = Sum3(waits)
        /\ Len(waits) <= 3
        /\ result.retry_wait_time \in {0, backoff_base, 3 * backoff_base}
        /\ result.retry_wait_time > 0 => result.was_rate_limited
        /\ ~result.handshake =>
              /\ result.status = PyNone
              /\ ~result.authorized
              /\ result.retry_wait_time = 0

\* An outcome returned after three rejected attempts: rate limited, 30 s
\* waited, no status.
C31_Witness ==
    /\ Returned1
    /\ result.rate_limited /\ result.was_rate_limited
    /\ rejected = max_retries
    /\ waits = <<backoff_base, 2 * backoff_base>>
    /\ result.retry_wait_time = 3 * backoff_base
    /\ result.status = PyNone

\* An authorized outcome returned after one rejected attempt.
C31_AuthorizedWitness ==
    /\ Returned1
    /\ result.authorized /\ result.handshake /\ ~result.rate_limited
    /\ result.was_rate_limited /\ result.retry_wait_time = backoff_base

\* An outcome returned after a failed handshake.
C31_FailedHandshakeWitness ==
    /\ Returned1
    /\ ~result.handshake /\ result.status = PyNone /\ result.retry_wait_time = 0

\* ---- C32: termination and resources
\* The bounds of one identity, and the order of the identities: while an
\* identity's requests are sent, the outcomes of all identities before it,
\* and of no other, have been recorded.
C32_IdentityBounds ==
    mode = "batch" =>
        /\ HandshakeRequests <= 1
        /\ GetProfileRequests <= max_retries
        /\ Len(waits) <= max_retries - 1
        /\ Sum3(waits) <= 3 * backoff_base
        /\ Len(results) <= Len(macs)
        /\ pc \in {"hs_request", "auth", "report"} =>
              /\ i \in 1..Len(macs)
              /\ Len(results) = i - 1
              /\ \A k \in 1..Len(requests) : requests[k].mac \in {<<>>, Upper(macs[i])}

\* The batch has completed with one outcome for each identity.
Completed ==
    /\ mode = "batch" /\ pc = "done"
    /\ Len(results) = Len(macs)
    /\ summary # <<>>

\* C32: when every network call returns or fails, one identity takes at most
\* one handshake request, three get_profile requests and 30 seconds of
\* backoff, the requests of an identity are sent only after the outcomes of
\* the identities before it have been recorded, and the batch eventually
\* completes with one outcome for each of its n identities.
C32_BatchTerminates ==
    /\ []C32_IdentityBounds
    /\ <>Completed

\* The batch completes whenever the pacing interval is not negative or there
\* is one identity only.
C32_PacedBatchTerminates ==
    (delay >= 0 \/ Len(macs) = 1) => <>Completed

\* Each identity's processing ends: a handshake request is followed by the
\* identity's outcome being returned.
C32_IdentityTerminates ==
    (mode = "batch" /\ pc = "hs_request") ~> (mode = "batch" /\ pc = "report")

\* The batch has been left by the ValueError of time.sleep for a negative
\* interval, after the first of several identities.
C32_LeftByNegativeDelay ==
    /\ mode = "batch" /\ pc = "crashed" /\ error = "ValueError"
    /\ delay < 0 /\ i = 1 /\ Len(macs) > 1
    /\ results = <<>> /\ summary = <<>>

====
